---- MODULE Spec2Model ----
(***************************************************************************)
(* Model of compressor/crawlers.py: the windowed crawl of the arXiv        *)
(* listing (crawl_arxiv) and the on-demand fetch of an OpenReview venue    *)
(* (crawl_openreview), both writing to a PaperDB record store.             *)
(*                                                                         *)
(* Strings that the code inspects (abstracts, titles, keywords) are        *)
(* sequences of one-character strings, so that casefold, replace and the   *)
(* substring test `in` are computed.  A published timestamp is a record    *)
(* of its date part (year, month, day) and the text that follows it.       *)
(* PaperDB lives in compressor/data.py, which is not part of the sources   *)
(* at hand: its operations are modelled from the specification's section   *)
(* on the Record Store.                                                    *)
(***************************************************************************)
EXTENDS Integers, Sequences, FiniteSets, TLC

\* ------------------------------------------------------------------ bounds
\* PAGE_SIZE is 100 in the source (crawlers.py:17); the model scales it down
\* so that a listing of MaxListing entries spans several pages.
PAGE_SIZE == 2
\* Longest listing the adapter serves.
MaxListing == 3
\* Longest sequence of submissions of a venue.
MaxSubs == 2
\* Number of runs (of either controller) in one behaviour.
MaxRuns == 2

\* ----------------------------------------------------------------- strings
\* str.casefold on one character of the model's alphabet.
CaseFoldChar(c) ==
    CASE c = "F" -> "f"
      [] c = "E" -> "e"
      [] c = "D" -> "d"
      [] c = "M" -> "m"
      [] OTHER -> c

\* str.casefold
casefold(s) == [i \in 1..Len(s) |-> CaseFoldChar(s[i])]

\* str.replace(old, new) for a one-character old and a string new.
RECURSIVE replace(_, _, _)
replace(s, old, new) ==
    IF s = <<>> THEN <<>>
    ELSE (IF Head(s) = old THEN new ELSE <<Head(s)>>) \o replace(Tail(s), old, new)

\* The substring test `needle in hay`.
Contains(hay, needle) ==
    \E i \in 0..(Len(hay) - Len(needle)) : SubSeq(hay, i + 1, i + Len(needle)) = needle

\* ------------------------------------------------------------------- dates
LeapYear(y) == (y % 4 = 0 /\ y % 100 # 0) \/ y % 400 = 0

DaysIn(y, m) ==
    IF m = 2 THEN (IF LeapYear(y) THEN 29 ELSE 28)
    ELSE IF m \in {4, 6, 9, 11} THEN 30 ELSE 31

\* el["published"].rstrip("Z") on the text after the date part.
rstripZ(tail) ==
    CASE tail = "T12:00:00Z" -> "T12:00:00"
      [] tail = "Z" -> ""
      [] OTHER -> tail

\* The stripped text after the date part, as datetime.fromisoformat reads it.
\* The model's timestamps carry either nothing, a time of day, or text that
\* is no time.
IsoRest == {"", "T12:00:00"}

\* datetime.fromisoformat(el["published"].rstrip("Z")) returns (TRUE) or
\* raises ValueError (FALSE): the date must be a calendar date and the rest
\* a time.
fromisoformat_ok(published) ==
    LET ymd == published.ymd
    IN /\ ymd[2] \in 1..12
       /\ ymd[3] \in 1..DaysIn(ymd[1], ymd[2])
       /\ rstripZ(published.tail) \in IsoRest

\* .strftime("%Y-%m-%d"), kept as its three components (ey, em, ed).
entry_date_of(published) == published.ymd

\* Order of the listing (sortBy=submittedDate): a is submitted before b.
DateBefore(a, b) ==
    \/ a[1] < b[1]
    \/ a[1] = b[1] /\ a[2] < b[2]
    \/ a[1] = b[1] /\ a[2] = b[2] /\ a[3] < b[3]

\* ----------------------------------------------------------- configuration
\* DESIRED_DATE.strftime("%Y-%m-%d").split("-"): the target date (ty, tm, td).
DESIRED_DATE == <<2024, 3, 1>>

\* CATEGORIES_OF_INTEREST as the source sets it.
SourceCategories == {"cs.LG", "cs.AI", "cs.CV", "cs.CL"}

\* keywords_to_skip as the source sets it, shortened to two keywords over the
\* model's alphabet: all lower-case, one of them with a space in it.
SourceKeywords == << <<"f", "e", "d">>, <<"m", " ", "c">> >>

\* The module-level settings a run reads.  The source's values, a keyword
\* list holding a keyword written with a capital, and an empty interest set.
Configs ==
    { [categories |-> SourceCategories, keywords |-> SourceKeywords],
      [categories |-> SourceCategories, keywords |-> << <<"F", "e", "d">> >>],
      [categories |-> {}, keywords |-> SourceKeywords] }

\* ------------------------------------------------------------- the listing
\* Entries the listing adapter can serve (feedparser entries): published,
\* arxiv_primary_category.term, link, summary, title.
Entry(ymd, tail, term, link, summary, title) ==
    [published |-> [ymd |-> ymd, tail |-> tail], term |-> term, link |-> link,
     summary |-> summary, title |-> title]

\* el["link"] of the paper with arXiv identifier id.
Abs(id) == <<"http://arxiv.org/abs/", id>>

E_later == Entry(<<2024, 3, 2>>, "T12:00:00Z", "cs.LG", Abs("a0"), <<"x">>, <<"t">>)
E_lg    == Entry(<<2024, 3, 1>>, "T12:00:00Z", "cs.LG", Abs("a1"), <<"x">>, <<"t">>)
E_db    == Entry(<<2024, 3, 1>>, "T12:00:00", "cs.DB", Abs("a2"), <<"x">>, <<"t">>)
E_fed   == Entry(<<2024, 3, 1>>, "Z", "cs.LG", Abs("a3"), <<"x", "F", "E", "D">>, <<"t">>)
E_nl    == Entry(<<2024, 3, 1>>, "T12:00:00Z", "cs.AI", Abs("a4"), <<"m", "\n", "c">>,
                 <<"t", "\n", "u">>)
E_old   == Entry(<<2024, 2, 29>>, "T12:00:00Z", "cs.LG", Abs("a5"), <<"x">>, <<"t">>)
E_bad   == Entry(<<2024, 3, 1>>, "?", "cs.LG", Abs("a6"), <<"x">>, <<"t">>)

EntryPool == {E_later, E_lg, E_db, E_fed, E_nl, E_old, E_bad}

\* sortOrder=descending: no entry is submitted before the one that follows it.
Descending(l) ==
    \A i \in 1..(Len(l) - 1) :
        ~DateBefore(l[i].published.ymd, l[i + 1].published.ymd)

SeqsUpTo(S, n) == UNION {[1..k -> S] : k \in 0..n}

\* The listings of the model: finite, in descending order of submission, no
\* paper listed twice.
Listings ==
    {l \in SeqsUpTo(EntryPool, MaxListing) :
        /\ Descending(l)
        /\ \A i, j \in 1..Len(l) : i # j => l[i].link # l[j].link}

\* feedparser.parse(...)["entries"] of api_call(start, max_results): the
\* entries at offsets start .. start + max_results - 1, none past the end.
api_call(l, start, max_results) ==
    SubSeq(l, start + 1, IF start + max_results < Len(l) THEN start + max_results ELSE Len(l))

\* ------------------------------------------------------------- Paper, PaperDB
\* Paper(...) as crawl_arxiv builds it.
ArxivPaper(el, entry_date) ==
    [title |-> replace(el.title, "\n", <<>>),
     abstract |-> replace(el.summary, "\n", <<" ">>),
     url |-> el.link,
     date_published |-> entry_date,
     source |-> "arxiv"]

\* Paper(...) as crawl_openreview builds it: no date is given.
NoDate == <<0, 0, 0>>
OpenreviewPaper(s, venue_id) ==
    [title |-> s.title,
     abstract |-> s.abstract,
     url |-> <<"https://openreview.net/forum?id=", s.forum>>,
     date_published |-> NoDate,
     source |-> venue_id]

\* PaperDB(): the in-memory frame, loaded from durable storage.
PaperDB(stored) == stored
\* db.add(paper): appended to the frame, no uniqueness enforced.
add(frame, paper) == Append(frame, paper)
\* db.commit(): durable storage after the flush of the frame.
commit(frame) == frame
\* db.get_papers_for_date(date)
get_papers_for_date(frame, date) ==
    SelectSeq(frame, LAMBDA p : p.date_published = date)
\* db._df.url.values
url_values(frame) == {frame[i].url : i \in 1..Len(frame)}

\* -------------------------------------------------------------- submissions
\* Notes client.get_all_notes can return.  complete: the note's content has
\* every field the loop reads (title, abstract, authors, keywords).
Submission(forum, complete) ==
    [forum |-> forum, title |-> <<"t">>, abstract |-> <<"x", "\n", "y">>,
     complete |-> complete]

SubmissionPool == {Submission("f1", TRUE), Submission("f2", TRUE), Submission("f3", FALSE)}

\* The submissions of a venue: each note is its own forum.
SubmissionLists ==
    {l \in SeqsUpTo(SubmissionPool, MaxSubs) :
        \A i, j \in 1..Len(l) : i # j => l[i].forum # l[j].forum}

venue_id == "venue"

\* The third field of each line of the ledger file output_fname, when the
\* file exists.
Ledgers == { {}, {<<"https://openreview.net/forum?id=", "f1">>} }

\* Durable storage before the first run: empty, or holding the paper a1
\* from an earlier day's crawl of the same target date.
InitStores == { <<>>, <<ArxivPaper(E_lg, DESIRED_DATE)>> }

\* ------------------------------------------------------------------- state
VARIABLES
    cfg,            \* CATEGORIES_OF_INTEREST and keywords_to_skip
    listing,        \* what the arXiv API serves, newest first
    durable,        \* the record store on disk
    df,             \* db._df of the PaperDB handle of the current (last) run
    kind,           \* "none", "arxiv" or "openreview": the current (last) run
    pc,             \* where the run stands; "done" or the exception that ended it
    run,            \* runs started
    ctr,            \* crawl_arxiv: offset of the page
    results,        \* crawl_arxiv: results["entries"] of the page
    idx,            \* crawl_arxiv: position of el in results
    stop_parsing,   \* crawl_arxiv: the stop flag
    submissions,    \* crawl_openreview: the notes of the venue
    processed_urls, \* crawl_openreview: urls read from the ledger
    sidx,           \* crawl_openreview: position of s in submissions
    \* history of the current run, read by the properties only
    appended,       \* positions (in listing or submissions) of the papers added, in order
    commits,        \* calls of db.commit()
    requested,      \* offsets passed to api_call
    evaluated,      \* listing positions the for loop has taken up
    stop_pos,       \* listing position of the entry that set the stop flag, or 0
    durable0,       \* durable storage when the run started
    prev            \* kind, end and number of papers added of the run before

config == <<cfg, listing>>
store  == <<durable, df>>
arxiv  == <<ctr, results, idx, stop_parsing>>
openrv == <<submissions, processed_urls, sidx>>
hist   == <<appended, commits, requested, evaluated, stop_pos, durable0, prev>>
vars   == <<config, store, kind, pc, run, arxiv, openrv, hist>>

Raised == {"URLError", "ValueError", "KeyError"}
Ended  == {"idle", "done"} \cup Raised

Init ==
    /\ cfg \in Configs
    /\ listing \in Listings
    /\ durable \in InitStores
    /\ df = durable
    /\ kind = "none"
    /\ pc = "idle"
    /\ run = 0
    /\ ctr = 0
    /\ results = <<>>
    /\ idx = 1
    /\ stop_parsing = FALSE
    /\ submissions = <<>>
    /\ processed_urls = {}
    /\ sidx = 1
    /\ appended = <<>>
    /\ commits = 0
    /\ requested = {}
    /\ evaluated = {}
    /\ stop_pos = 0
    /\ durable0 = durable
    /\ prev = [kind |-> "none", pc |-> "idle", appended |-> 0]

\* The history variables at the start of a run.
NewRun ==
    /\ run' = run + 1
    /\ appended' = <<>>
    /\ commits' = 0
    /\ requested' = {}
    /\ evaluated' = {}
    /\ stop_pos' = 0
    /\ durable0' = durable
    /\ prev' = [kind |-> kind, pc |-> pc, appended |-> Len(appended)]

\* ------------------------------------------------------------- crawl_arxiv
\* The date test with the month and the day left out of the comparison.
IsDesiredDate_YearOnly(entry_date) == DESIRED_DATE[1] = entry_date[1]

\* if ty == ey and tm == em and td == ed
IsDesiredDate(entry_date) ==
    /\ DESIRED_DATE[1] = entry_date[1]
    /\ DESIRED_DATE[2] = entry_date[2]
    /\ DESIRED_DATE[3] = entry_date[3]

\* The category test with an empty interest set taken as "no filter".
InCategories_OrEmpty(term) == cfg.categories = {} \/ term \in cfg.categories

\* el["arxiv_primary_category"]["term"] in CATEGORIES_OF_INTEREST
InCategories(term) == term \in cfg.categories

\* The keyword test on the abstract as written, without the case-folding.
SkipKeyword_NoFold(abstract) ==
    \E k \in 1..Len(cfg.keywords) : Contains(abstract, cfg.keywords[k])

\* any([kw in casefold_summary for kw in keywords_to_skip])
SkipKeyword(abstract) ==
    LET casefold_summary == casefold(abstract)
    IN \E k \in 1..Len(cfg.keywords) : Contains(casefold_summary, cfg.keywords[k])

\* The membership test reading the wrong column of the frame.
InStore_Titles(url) == url \in {df[i].title : i \in 1..Len(df)}

\* paper.url in db._df.url.values
InStore(url) == url \in url_values(df)

\* The offset advanced by one entry instead of by one page.
next_ctr_ByOne == IF ctr >= Len(listing) THEN ctr ELSE ctr + 1

\* ctr += PAGE_SIZE.  Every offset past the end of the listing yields the
\* same empty page, so the model keeps the first such offset instead of
\* counting on without end.
next_ctr == IF ctr >= Len(listing) THEN ctr ELSE ctr + PAGE_SIZE

\* The commit decided by what this run added instead of by what the store
\* holds for the target date.
should_commit_IfAppended == Len(appended) > 0

\* len(valid_entries) > 0, valid_entries = db.get_papers_for_date(target)
should_commit == Len(get_papers_for_date(df, DESIRED_DATE)) > 0

\* crawl_arxiv(db): db given (the handle of the crawl before) or None.
StartCrawlArxiv ==
    /\ pc \in Ended
    /\ run < MaxRuns
    /\ \E given \in BOOLEAN :
          /\ given => kind = "arxiv"
          /\ df' = IF given THEN df ELSE PaperDB(durable)
    /\ ctr' = 0
    /\ stop_parsing' = FALSE
    /\ results' = <<>>
    /\ idx' = 1
    /\ kind' = "arxiv"
    /\ pc' = "api_call"
    /\ NewRun
    /\ UNCHANGED <<config, durable, openrv>>

\* results = api_call(ctr, PAGE_SIZE), the request answered.
ApiCallReturns ==
    /\ pc = "api_call"
    /\ results' = api_call(listing, ctr, PAGE_SIZE)
    /\ idx' = 1
    /\ requested' = requested \cup {ctr}
    /\ pc' = IF results' = <<>> THEN "end_page" ELSE "for_el"
    /\ UNCHANGED <<config, store, kind, run, ctr, stop_parsing, openrv,
                   appended, commits, evaluated, stop_pos, durable0, prev>>

\* results = api_call(ctr, PAGE_SIZE), urlopen raising: the run ends there.
ApiCallRaises ==
    /\ pc = "api_call"
    /\ requested' = requested \cup {ctr}
    /\ pc' = "URLError"
    /\ UNCHANGED <<config, store, kind, run, arxiv, openrv,
                   appended, commits, evaluated, stop_pos, durable0, prev>>

\* One pass of `for el in results["entries"]`.
ForEl ==
    /\ pc = "for_el"
    /\ LET el == results[idx]
           pos == ctr + idx
       IN /\ evaluated' = evaluated \cup {pos}
          /\ IF ~fromisoformat_ok(el.published)
             THEN /\ pc' = "ValueError"
                  /\ UNCHANGED <<df, idx, stop_parsing, appended, stop_pos>>
             ELSE LET entry_date == entry_date_of(el.published)
                      paper == ArxivPaper(el, entry_date)
                  IN IF IsDesiredDate(entry_date)
                     THEN /\ IF /\ InCategories(el.term)
                                /\ ~SkipKeyword(paper.abstract)
                                /\ ~InStore(paper.url)
                             THEN /\ df' = add(df, paper)
                                  /\ appended' = Append(appended, pos)
                             ELSE UNCHANGED <<df, appended>>
                          /\ idx' = idx + 1
                          /\ pc' = IF idx + 1 > Len(results) THEN "end_page" ELSE "for_el"
                          /\ UNCHANGED <<stop_parsing, stop_pos>>
                     ELSE /\ stop_parsing' = TRUE
                          /\ stop_pos' = pos
                          /\ pc' = "end_page"
                          /\ UNCHANGED <<df, idx, appended>>
    /\ UNCHANGED <<config, durable, kind, run, ctr, results, openrv,
                   commits, requested, durable0, prev>>

\* After the for loop: if stop_parsing: break; ctr += PAGE_SIZE.
EndOfPage ==
    /\ pc = "end_page"
    /\ IF stop_parsing
       THEN pc' = "finish" /\ ctr' = ctr
       ELSE pc' = "api_call" /\ ctr' = next_ctr
    /\ UNCHANGED <<config, store, kind, run, results, idx, stop_parsing, openrv, hist>>

\* valid_entries = db.get_papers_for_date(...); commit if there are any.
Finish ==
    /\ pc = "finish"
    /\ IF should_commit
       THEN durable' = commit(df) /\ commits' = commits + 1
       ELSE UNCHANGED <<durable, commits>>
    /\ pc' = "done"
    /\ UNCHANGED <<config, df, kind, run, arxiv, openrv,
                   appended, requested, evaluated, stop_pos, durable0, prev>>

\* -------------------------------------------------------- crawl_openreview
\* Up to the loop: the notes of the venue, the ledger's urls, a new PaperDB.
StartCrawlOpenreview ==
    /\ pc \in Ended
    /\ run < MaxRuns
    /\ submissions' \in SubmissionLists
    /\ processed_urls' \in Ledgers
    /\ df' = PaperDB(durable)
    /\ sidx' = 1
    /\ kind' = "openreview"
    /\ pc' = IF submissions' = <<>> THEN "done" ELSE "or_for"
    /\ NewRun
    /\ UNCHANGED <<config, durable, arxiv>>

\* The loop with the ledger consulted: a submission whose url the ledger
\* holds is passed over.
OrAdd_SkipProcessed ==
    /\ pc = "or_for"
    /\ LET s == submissions[sidx]
       IN IF ~s.complete
          THEN pc' = "KeyError" /\ UNCHANGED <<df, appended>>
          ELSE IF OpenreviewPaper(s, venue_id).url \in processed_urls
          THEN pc' = "or_commit" /\ UNCHANGED <<df, appended>>
          ELSE /\ df' = add(df, OpenreviewPaper(s, venue_id))
               /\ appended' = Append(appended, sidx)
               /\ pc' = "or_commit"
    /\ UNCHANGED <<config, durable, kind, run, arxiv, openrv,
                   commits, requested, evaluated, stop_pos, durable0, prev>>

\* paper = Paper(...); db.add(paper).  A note without one of the fields
\* raises KeyError.
OrAdd ==
    /\ pc = "or_for"
    /\ LET s == submissions[sidx]
       IN IF ~s.complete
          THEN pc' = "KeyError" /\ UNCHANGED <<df, appended>>
          ELSE /\ df' = add(df, OpenreviewPaper(s, venue_id))
               /\ appended' = Append(appended, sidx)
               /\ pc' = "or_commit"
    /\ UNCHANGED <<config, durable, kind, run, arxiv, openrv,
                   commits, requested, evaluated, stop_pos, durable0, prev>>

\* The commit moved out of the loop: one flush after the last submission.
OrCommit_AtEnd ==
    /\ pc = "or_commit"
    /\ IF sidx + 1 > Len(submissions)
       THEN durable' = commit(df) /\ commits' = commits + 1
       ELSE UNCHANGED <<durable, commits>>
    /\ sidx' = sidx + 1
    /\ pc' = IF sidx + 1 > Len(submissions) THEN "done" ELSE "or_for"
    /\ UNCHANGED <<config, df, kind, run, arxiv, submissions, processed_urls,
                   appended, requested, evaluated, stop_pos, durable0, prev>>

\* db.commit(), and on to the next submission.
OrCommit ==
    /\ pc = "or_commit"
    /\ durable' = commit(df)
    /\ commits' = commits + 1
    /\ sidx' = sidx + 1
    /\ pc' = IF sidx + 1 > Len(submissions) THEN "done" ELSE "or_for"
    /\ UNCHANGED <<config, df, kind, run, arxiv, submissions, processed_urls,
                   appended, requested, evaluated, stop_pos, durable0, prev>>

\* ----------------------------------------------------------- specification
\* The steps a started run takes by itself.
CrawlStep ==
    \/ ApiCallReturns
    \/ ForEl
    \/ EndOfPage
    \/ Finish

FetchStep ==
    \/ OrAdd
    \/ OrCommit

NextCrawl ==
    \/ StartCrawlArxiv
    \/ ApiCallRaises
    \/ CrawlStep

NextFetch ==
    \/ StartCrawlOpenreview
    \/ FetchStep

Next ==
    \/ NextCrawl
    \/ NextFetch

\* Runs of both controllers, in any order, against one record store.
Spec == Init /\ [][Next]_vars

\* Windowed crawls only.
SpecCrawl == Init /\ [][NextCrawl]_vars

\* Windowed crawls only; the interpreter runs a started crawl on: a step
\* that can be taken is taken.  Nothing forces the adapter to fail.
FairCrawl == SpecCrawl /\ WF_vars(CrawlStep)

\* On-demand fetches only: the listing and the settings play no part.
InitFetch ==
    /\ Init
    /\ listing = <<>>
    /\ cfg = [categories |-> SourceCategories, keywords |-> SourceKeywords]

SpecFetch == InitFetch /\ [][NextFetch]_vars

\* ------------------------------------------------------------- properties
\* The normalized published date of an entry lies before, or after, the
\* target date.
Earlier(el) ==
    fromisoformat_ok(el.published) /\ DateBefore(el.published.ymd, DESIRED_DATE)
Later(el) ==
    fromisoformat_ok(el.published) /\ DateBefore(DESIRED_DATE, el.published.ymd)
OnTarget(el) ==
    fromisoformat_ok(el.published) /\ el.published.ymd = DESIRED_DATE

\* The abstract contains keyword kw in some letter-case.
ContainsAnyCase(abstract, kw) == Contains(casefold(abstract), casefold(kw))

\* An entry the windowed crawl is to keep: on the target date, of a category
\* of interest, no exclusion keyword in its (newline-free) abstract.
Qualifies(el) ==
    /\ OnTarget(el)
    /\ el.term \in cfg.categories
    /\ \A k \in 1..Len(cfg.keywords) :
          ~ContainsAnyCase(replace(el.summary, "\n", <<" ">>), cfg.keywords[k])

CrawlDone == kind = "arxiv" /\ pc = "done"

\* C1: when a windowed crawl ends, every listing entry on the target date,
\* of a category of interest and free of exclusion keywords is in the record
\* store, whatever stands before it in the listing.
C1_WindowComplete ==
    CrawlDone =>
        \A i \in 1..Len(listing) :
            Qualifies(listing[i]) => listing[i].link \in url_values(df)

\* C2: an entry dated later than the target date is skipped: it is never the
\* entry that sets the stop flag.
C2_LaterEntrySkipped ==
    (kind = "arxiv" /\ stop_pos # 0) => ~Later(listing[stop_pos])

\* The scenario of the specification: page size 2, two target-date entries
\* (cs.LG, cs.DB) on the first page, an earlier entry on the second.
ScenarioListing == <<E_lg, E_db, E_old>>

\* C3: once the for loop has taken up an entry dated earlier than the target
\* date, it takes up no entry after it, no page at or past its position is
\* requested, and the run is on its way out of the loop; in the scenario,
\* run first against an empty store, one paper (the cs.LG one) is added and
\* the pages at offsets 0 and 2 are requested.
C3_StopAtEarlier ==
    /\ kind = "arxiv" =>
          \A q \in evaluated :
              Earlier(listing[q]) =>
                  /\ \A p \in evaluated : p <= q
                  /\ \A o \in requested : o < q
                  /\ pc \in {"end_page", "finish", "done"}
    /\ ( /\ CrawlDone
         /\ PAGE_SIZE = 2
         /\ listing = ScenarioListing
         /\ run = 1
         /\ durable0 = <<>>
         /\ cfg.categories = SourceCategories )
       => (appended = <<1>> /\ requested = {0, 2})

C3_Witness ==
    /\ CrawlDone
    /\ run = 1
    /\ listing = ScenarioListing
    /\ stop_pos = 3
    /\ evaluated = {1, 2, 3}
    /\ appended = <<1>>
    /\ requested = {0, 2}

\* C4: a started windowed crawl whose adapter serves a finite listing (empty
\* pages past its end) leaves the page-request loop: it ends, normally or
\* by an exception.
C4_Terminates ==
    (kind = "arxiv" /\ pc = "api_call") ~> (pc \in {"done"} \cup Raised)

\* C5: when a windowed crawl ends, db.commit() was called once if the run
\* added a paper and not at all if it added none.
C5_CommitIffAppended ==
    CrawlDone => commits = (IF Len(appended) > 0 THEN 1 ELSE 0)

\* The run before this one was a windowed crawl that ended normally.
AfterCrawlDone == kind = "arxiv" /\ prev.kind = "arxiv" /\ prev.pc = "done"

\* C6: a windowed crawl that follows a completed windowed crawl of the same
\* listing and target date adds no paper, and leaves durable storage as the
\* first crawl left it, with a new PaperDB handle or with the first one's.
C6_Idempotent ==
    AfterCrawlDone =>
        /\ appended = <<>>
        /\ durable = durable0
        /\ pc = "done" => df = durable

C6_Witness ==
    /\ AfterCrawlDone
    /\ pc = "done"
    /\ prev.appended > 0
    /\ appended = <<>>
    /\ commits = 1

\* C7: no two papers in durable storage share a url, whatever runs of the
\* two controllers came before.
C7_UniqueUrls ==
    \A i, j \in 1..Len(durable) : i # j => durable[i].url # durable[j].url

\* C8: no paper added by a windowed crawl comes from an entry whose abstract
\* contains a keyword of the exclusion list in any letter-case, however the
\* keyword itself is written.
C8_KeywordExclusion ==
    kind = "arxiv" =>
        \A n \in 1..Len(appended) :
            \A k \in 1..Len(cfg.keywords) :
                ~ContainsAnyCase(listing[appended[n]].summary, cfg.keywords[k])

\* The papers of the first n submissions, in adapter order.
FirstPapers(n) == [i \in 1..n |-> OpenreviewPaper(submissions[i], venue_id)]

\* C9: in an on-demand fetch, add and commit alternate: wherever the run
\* stands or is cut off, with k submissions processed, there were k
\* commits and durable storage holds what it held before the run followed
\* by the papers of exactly the first k submissions; at most the one paper
\* being processed is added and not yet durable.
C9_CommitPerItem ==
    kind = "openreview" =>
        /\ commits = sidx - 1
        /\ durable = durable0 \o FirstPapers(sidx - 1)
        /\ Len(appended) = (IF pc = "or_commit" THEN sidx ELSE sidx - 1)
        /\ appended = [i \in 1..Len(appended) |-> i]
        /\ df = durable0 \o FirstPapers(Len(appended))

C9_Witness ==
    /\ kind = "openreview"
    /\ pc = "KeyError"
    /\ sidx = 2
    /\ commits = 1
    /\ durable = durable0 \o FirstPapers(1)

\* What one crawl without failure leaves in durable storage, started with
\* a new handle on storage d: the entries before the first one off the
\* target date, filtered and deduplicated in listing order, flushed if the
\* frame then holds a paper of the target date.
RECURSIVE ScanFrom(_, _)
ScanFrom(frame, l) ==
    IF l = <<>> \/ ~OnTarget(Head(l))
    THEN frame
    ELSE LET paper == ArxivPaper(Head(l), DESIRED_DATE)
             keep == /\ Head(l).term \in cfg.categories
                     /\ \A k \in 1..Len(cfg.keywords) :
                           ~Contains(casefold(paper.abstract), cfg.keywords[k])
                     /\ paper.url \notin url_values(frame)
         IN ScanFrom(IF keep THEN Append(frame, paper) ELSE frame, Tail(l))

SingleRun(d) ==
    LET frame == ScanFrom(d, listing)
    IN IF \E i \in 1..Len(frame) : frame[i].date_published = DESIRED_DATE
       THEN frame ELSE d

\* The run before this one was a windowed crawl ended by a failed request.
AfterCrawlFailed == kind = "arxiv" /\ prev.kind = "arxiv" /\ prev.pc = "URLError"

\* C10: a windowed crawl ended by a failed page request has called no
\* commit and left durable storage as the run found it; a crawl of the same
\* listing that follows it and ends normally leaves durable storage as one
\* crawl without failure would have (SingleRun, which a first crawl that
\* ends normally is seen to produce).
C10_FailureRecovery ==
    /\ (kind = "arxiv" /\ pc = "URLError") => (commits = 0 /\ durable = durable0)
    /\ (CrawlDone /\ run = 1) => durable = SingleRun(durable0)
    /\ (AfterCrawlFailed /\ pc = "done") => durable = SingleRun(durable0)

C10_Witness ==
    /\ AfterCrawlFailed
    /\ pc = "done"
    /\ prev.appended > 0
    /\ durable # durable0
    /\ durable = SingleRun(durable0)

\* The published timestamp of an entry cannot be normalized to a date.
Malformed(el) == ~fromisoformat_ok(el.published)

\* C11: an entry whose published timestamp cannot be normalized to a date
\* is skipped alone: no windowed crawl is ended by it.
C11_MalformedDateSkipped ==
    kind = "arxiv" =>
        ~(pc = "ValueError" /\ \E q \in evaluated : Malformed(listing[q]))

\* A string holds a raw newline character.
HasNewline(str) == \E i \in 1..Len(str) : str[i] = "\n"

NewlineFree(frame) ==
    \A i \in 1..Len(frame) : ~HasNewline(frame[i].title) /\ ~HasNewline(frame[i].abstract)

\* C12: whatever runs of the two controllers came before, no paper of the
\* record store, added or durable, has a title or an abstract holding a raw
\* newline.
C12_NewlineFree == NewlineFree(df) /\ NewlineFree(durable)

\* Submissions the loop has gone through without an exception.
Processed == IF pc = "or_commit" THEN sidx ELSE sidx - 1

\* C13: an on-demand fetch adds one paper for every submission it goes
\* through, in adapter order and built from the submission alone, whatever
\* the ledger and the store hold; a run that ends normally has gone through
\* all n submissions and added n papers.
C13_OnePerSubmission ==
    kind = "openreview" =>
        /\ appended = [i \in 1..Processed |-> i]
        /\ df = PaperDB(durable0) \o FirstPapers(Processed)
        /\ pc = "done" => Len(appended) = Len(submissions)

\* Both submissions are in the ledger or in the store before the run, and
\* both are added.
C13_Witness ==
    /\ kind = "openreview"
    /\ pc = "done"
    /\ Len(submissions) = 2
    /\ appended = <<1, 2>>
    /\ FirstPapers(1)[1].url \in processed_urls
    /\ \E i \in 1..2 : FirstPapers(2)[i].url \in url_values(durable0)

\* The offsets of the first n page requests.
FirstOffsets(n) == {(k - 1) * PAGE_SIZE : k \in 1..n}

FrameBefore(n) == SubSeq(df, 1, Len(df) - Len(appended) + n - 1)
AddedPaper(n) == df[Len(df) - Len(appended) + n]

\* C16: every paper a windowed crawl adds is the Paper built from a listing
\* entry, dated on the target date, of a primary category in the interest
\* set, with source "arxiv", with an abstract whose case-folded text
\* contains none of the exclusion keywords as the list writes them, and
\* with a url the frame did not hold when the paper was added.
C16_Soundness ==
    kind = "arxiv" =>
        \A n \in 1..Len(appended) :
            LET el == listing[appended[n]]
                paper == AddedPaper(n)
            IN /\ paper = ArxivPaper(el, DESIRED_DATE)
               /\ OnTarget(el)
               /\ paper.date_published = DESIRED_DATE
               /\ el.term \in cfg.categories
               /\ \A k \in 1..Len(cfg.keywords) :
                     ~Contains(casefold(paper.abstract), cfg.keywords[k])
               /\ paper.source = "arxiv"
               /\ paper.url \notin url_values(FrameBefore(n))

\* Two papers added to a store that held one before the run.
C16_Witness ==
    /\ CrawlDone
    /\ Len(appended) = 2
    /\ durable0 # <<>>
    /\ Len(df) = Len(durable0) + 2

====
